---- MODULE Spec2Model ----
(***************************************************************************)
(* Simulation-based combinational equivalence checking                     *)
(* (include/mockturtle/algorithms/simulation_cec.hpp).                     *)
(*                                                                         *)
(* The model follows one call of simulation_cec(ntk1, ntk2, pst): the      *)
(* input-count guard, the miter, and simulation_cec_impl::run with its     *)
(* planner (compute_splitting_var, compute_rounds), init_patterns, the     *)
(* round loop (update_pattern, simulate_nodes, check) and the final report *)
(* of the statistics.                                                      *)
(***************************************************************************)
EXTENDS Integers, Sequences, FiniteSets, TLC

(***************************************************************************)
(* Bounds of the model.                                                    *)
(***************************************************************************)
\* primary-input counts of the two networks range over 0..MaxPis
MaxPis == 41
\* primary-output counts of the two networks range over 1..MaxPos
MaxPos == 2
\* truth tables are simulated explicitly up to this number of variables
MaxSimVars == 8
\* the round loop is followed up to this round index
MaxRound == 4

(***************************************************************************)
(* Program constants.                                                      *)
(***************************************************************************)
\* simulation_cec: ntk1.num_pis() > 40
PiCap == 40
\* compute_splitting_var: if (n<=6)
SmallPis == 6
\* compute_splitting_var: uint32_t m = 7
FirstCandidate == 7
\* compute_splitting_var: uint32_t max = 1 << 29
BudgetLog2 == 29

(***************************************************************************)
(* uint32_t arithmetic.  A uint32_t value is kept as two 16-bit limbs so   *)
(* that products and shifts wrap modulo 2^32 exactly as in the program.    *)
(***************************************************************************)
Limb == 2^16

U32(x) == [hi |-> (x \div Limb) % Limb, lo |-> x % Limb]

U32Le(a, b) == a.hi < b.hi \/ (a.hi = b.hi /\ a.lo <= b.lo)

U32Lt(a, b) == a.hi < b.hi \/ (a.hi = b.hi /\ a.lo < b.lo)

\* k * a modulo 2^32, for a small multiplier k
U32Mul(k, a) ==
  LET plo == k * a.lo
      phi == k * a.hi + (plo \div Limb)
  IN  [hi |-> phi % Limb, lo |-> plo % Limb]

\* a - b modulo 2^32
U32Sub(a, b) ==
  LET borrow == IF a.lo < b.lo THEN 1 ELSE 0
  IN  [hi |-> (a.hi - b.hi - borrow + 2 * Limb) % Limb,
       lo |-> (a.lo - b.lo + Limb) % Limb]

\* 1 << c for a shift count c in 0..31, converted to uint32_t
U32Shl1(c) ==
  IF c < 16 THEN [hi |-> 0, lo |-> 2^c] ELSE [hi |-> 2^(c - 16), lo |-> 0]

\* `1 << c` for a uint32_t shift count c.  The left operand is a 32-bit int,
\* so a count of 32 or more is undefined behaviour: a build either masks the
\* count to five bits (masks = TRUE) or shifts every bit out.
ShiftByBuild(c, masks) ==
  IF c.hi = 0 /\ c.lo < 32
  THEN U32Shl1(c.lo)
  ELSE IF masks THEN U32Shl1(c.lo % 32) ELSE U32(0)

\* whether `1 << c` is undefined
ShiftUndefined(c) == ~(c.hi = 0 /\ c.lo < 32)

\* The values `1 << c` can take over all builds.
ShiftOutcomes(c) == {ShiftByBuild(c, masks) : masks \in BOOLEAN}

(***************************************************************************)
(* Truth tables (kitty::dynamic_truth_table).  A table over nv variables   *)
(* is the set of the positions k in 0..2^nv-1 whose bit is 1.              *)
(***************************************************************************)
Positions(nv) == 0 .. (2^nv - 1)

\* bit i of k, for k below 2^31
BitOf(k, i) == IF i > 30 THEN 0 ELSE (k \div 2^i) % 2

\* kitty::dynamic_truth_table tt(nv): all bits 0
tt_const0 == {}

\* kitty::create_nth_var(tt, p)
create_nth_var(nv, p) == {k \in Positions(nv) : BitOf(k, p) = 1}

\* operator~ on a table over nv variables
tt_not(tt, nv) == Positions(nv) \ tt

\* kitty::is_const0
is_const0(tt) == tt = {}

(***************************************************************************)
(* Networks.  Node 0 is the constant-false node, node i+1 is the primary   *)
(* input of positional index i, the nodes after them are AND gates in      *)
(* topological order.  A signal is a node with a complement flag.  size is *)
(* the node count reported by size(); the gates that are not listed are    *)
(* outside the cone of every primary output.                               *)
(***************************************************************************)
Sig(node, c) == [node |-> node, c |-> c]

ConstNode == 0

PiNode(i) == i + 1

PiNodes(ntk) == {PiNode(i) : i \in 0 .. ntk.num_pis - 1}

GateNode(ntk, g) == ntk.num_pis + g

GateNodes(ntk) == {GateNode(ntk, g) : g \in 1 .. Len(ntk.gates)}

\* The node counts tried for a miter: its listed nodes alone, the largest
\* count whose estimate 48 * v is within 2^29, the next one, and a count
\* whose 32-bit product 48 * v wraps around to 32.
SizeChoices(listed) == {listed, 11184810, 11184811, 89478486}

\* primary-input indices the listed gates and outputs refer to
Picks(n) == {0, FirstCandidate, n - 1} \cap (0 .. n - 1)

\* gate lists over the picked inputs x and y
GateShapes(n, x, y) ==
  LET X  == PiNode(x)
      Y  == PiNode(y)
      g1 == n + 1
      g2 == n + 2
      g3 == n + 3
  IN  { [gates |-> << >>, out |-> Sig(X, FALSE)],
        [gates |-> << >>, out |-> Sig(X, TRUE)],
        \* x AND NOT y
        [gates |-> << <<Sig(X, FALSE), Sig(Y, TRUE)>> >>, out |-> Sig(g1, FALSE)],
        \* x XOR y
        [gates |-> << <<Sig(X, FALSE), Sig(Y, TRUE)>>,
                      <<Sig(X, TRUE), Sig(Y, FALSE)>>,
                      <<Sig(g1, TRUE), Sig(g2, TRUE)>> >>,
         out |-> Sig(g3, TRUE)] }

\* gate lists that refer to no primary input
ConstShapes(n) ==
  { [gates |-> << >>, out |-> Sig(ConstNode, FALSE)],
    [gates |-> << >>, out |-> Sig(ConstNode, TRUE)],
    \* NOT (true AND true)
    [gates |-> << <<Sig(ConstNode, TRUE), Sig(ConstNode, TRUE)>> >>,
     out |-> Sig(n + 1, TRUE)] }

Shapes(n) ==
  ConstShapes(n) \cup
  UNION {GateShapes(n, x, y) : x \in Picks(n), y \in Picks(n)}

\* primary-output lists of length npos: the shape's output, alone or next
\* to constant-false outputs
PoLists(out, npos) ==
  IF npos = 1
  THEN { <<out>> }
  ELSE { [j \in 1 .. npos |-> IF j = k THEN out ELSE Sig(ConstNode, FALSE)]
           : k \in 1 .. npos }

NetworksOf(s, n, npos) ==
  { [num_pis |-> n, gates |-> s.gates, pos |-> pos, size |-> v]
      : pos \in PoLists(s.out, npos), v \in SizeChoices(1 + n + Len(s.gates)) }

Networks(n, npos) == UNION {NetworksOf(s, n, npos) : s \in Shapes(n)}

\* No miter: the two networks differ in primary-input or primary-output count.
NoMiter == [num_pis |-> 0, gates |-> << >>, pos |-> << >>, size |-> 0]

\* miter<Ntk>(ntk1, ntk2): a network only when both counts agree
Miters(n1, n2, npos1, npos2) ==
  IF n1 = n2 /\ npos1 = npos2 THEN Networks(n1, npos1) ELSE {NoMiter}

(***************************************************************************)
(* The planner.                                                            *)
(***************************************************************************)
RECURSIVE SearchWidth(_, _, _, _)
\* while (m<=n && cond<=max) m++;
SearchWidth(m, n, cond, max) ==
  IF m <= n /\ U32Le(cond, max) THEN SearchWidth(m + 1, n, cond, max) ELSE m

\* faulty variant: the small case tested with n < 6
compute_splitting_var_lt(n, v) ==
  IF n < SmallPis
  THEN n
  ELSE SearchWidth(FirstCandidate, n,
                   U32Mul(32 + 2^(FirstCandidate - 3), U32(v)), U32Shl1(BudgetLog2))

compute_splitting_var(n, v) ==
  IF n <= SmallPis
  THEN n
  ELSE LET m    == FirstCandidate
           cond == U32Mul(32 + 2^(m - 3), U32(v))
           max  == U32Shl1(BudgetLog2)
       IN  SearchWidth(m, n, cond, max)

\* 1 << (n-split_var): the values the shift can produce
compute_rounds(n, split_var) == ShiftOutcomes(U32Sub(U32(n), U32(split_var)))

(***************************************************************************)
(* The pattern store (unordered_node_map): a function from the nodes that  *)
(* have an entry to their truth tables.                                    *)
(***************************************************************************)
EmptyPatterns == [nd \in {} |-> tt_const0]

\* patterns[nd] = tt
Store(patterns, nd, tt) ==
  [x \in DOMAIN patterns \cup {nd} |-> IF x = nd THEN tt ELSE patterns[x]]

\* patterns.erase(nd) for every nd in nodes
Erase(patterns, nodes) == [x \in DOMAIN patterns \ nodes |-> patterns[x]]

\* faulty variant: the projection is taken for variable p + 1
init_patterns_one_based(ntk, split_var) ==
  [nd \in PiNodes(ntk) |->
     LET p == nd - 1
     IN  IF p < split_var THEN create_nth_var(split_var, p + 1) ELSE tt_const0]

init_patterns(ntk, split_var) ==
  [nd \in PiNodes(ntk) |->
     LET p == nd - 1
     IN  IF p < split_var THEN create_nth_var(split_var, p) ELSE tt_const0]

\* the value of signal f under patterns
SignalValue(patterns, f, nv) ==
  IF f.c THEN tt_not(patterns[f.node], nv) ELSE patterns[f.node]

RECURSIVE SimulateGates(_, _, _, _)
SimulateGates(ntk, patterns, g, nv) ==
  IF g > Len(ntk.gates)
  THEN patterns
  ELSE LET nd == GateNode(ntk, g)
           a  == SignalValue(patterns, ntk.gates[g][1], nv)
           b  == SignalValue(patterns, ntk.gates[g][2], nv)
           p  == IF nd \in DOMAIN patterns THEN patterns ELSE Store(patterns, nd, a \cap b)
       IN  SimulateGates(ntk, p, g + 1, nv)

\* every primary input without an entry gets the projection of its variable
SimulatePis(ntk, patterns, nv) ==
  [nd \in DOMAIN patterns \cup PiNodes(ntk) |->
     IF nd \in DOMAIN patterns THEN patterns[nd] ELSE create_nth_var(nv, nd - 1)]

\* simulate_nodes(ntk, patterns, sim): every node without an entry gets one,
\* the constant first, then the primary inputs, then the gates in
\* topological order
simulate_nodes(ntk, patterns, nv) ==
  LET p0 == IF ConstNode \in DOMAIN patterns
            THEN patterns
            ELSE Store(patterns, ConstNode, tt_const0)
  IN  SimulateGates(ntk, SimulatePis(ntk, p0, nv), 1, nv)

\* faulty variant: each output overwrites eq, so the last output decides
check_last_output_decides(ntk, patterns, nv) ==
  LET f == ntk.pos[Len(ntk.pos)]
  IN  IF f.c
      THEN is_const0(tt_not(patterns[f.node], nv))
      ELSE is_const0(patterns[f.node])

\* faulty variant: the complement flag of an output is ignored
check_ignoring_complement(ntk, patterns, nv) ==
  \A j \in 1 .. Len(ntk.pos) : is_const0(patterns[ntk.pos[j].node])

check(ntk, patterns, nv) ==
  \A j \in 1 .. Len(ntk.pos) :
     LET f == ntk.pos[j]
     IN  IF f.c
         THEN is_const0(tt_not(patterns[f.node], nv))
         ELSE is_const0(patterns[f.node])

\* the value of r when the foreach_pi loop of update_pattern reaches input
\* i >= split_var: r starts as round and is halved once by every such input
\* before i
RemainingRound(round, i, split_var) ==
  IF i - split_var > 30 THEN 0 ELSE round \div 2^(i - split_var)

\* the body of the loop for an input i >= split_var that holds tt
UpdatePi(tt, r, split_var) ==
  IF r % 2 = 1
  THEN IF is_const0(tt) THEN tt_not(tt, split_var) ELSE tt
  ELSE IF ~is_const0(tt) THEN tt_not(tt, split_var) ELSE tt

\* the foreach_pi loop of update_pattern: the inputs below split_var and the
\* other nodes keep their entries
UpdatePis(ntk, patterns, round, split_var) ==
  [nd \in DOMAIN patterns |->
     IF nd \in PiNodes(ntk) /\ nd - 1 >= split_var
     THEN UpdatePi(patterns[nd], RemainingRound(round, nd - 1, split_var), split_var)
     ELSE patterns[nd]]

\* faulty variant: the old gate entries are not erased
update_pattern_keeping_gates(ntk, round, patterns, split_var) ==
  UpdatePis(ntk, patterns, round, split_var)

\* faulty variant: the cleaning step erases every node but the constant, and only
\* the overflow inputs get their entry back
update_pattern_erasing_pis(ntk, round, patterns, split_var) ==
  Erase(UpdatePis(ntk, Erase(patterns, GateNodes(ntk)), round, split_var),
        {PiNode(i) : i \in 0 .. split_var - 1} \cap PiNodes(ntk))

update_pattern(ntk, round, patterns, split_var) ==
  UpdatePis(ntk, Erase(patterns, GateNodes(ntk)), round, split_var)

(***************************************************************************)
(* State.                                                                  *)
(***************************************************************************)
VARIABLES
  ntk1_pis,   \* ntk1.num_pis()
  ntk2_pis,   \* ntk2.num_pis()
  ntk1_pos,   \* ntk1.num_pos()
  ntk2_pos,   \* ntk2.num_pos()
  ntk_miter,  \* the miter of ntk1 and ntk2, NoMiter when it has no value
  has_pst,    \* whether the caller passed a statistics object
  pst,        \* the caller's statistics object
  pc,         \* position in simulation_cec / run
  st,         \* simulation_cec_stats st
  result,     \* bool result of simulation_cec
  ret,        \* the returned std::optional<bool>, "none" before the return
  patterns,   \* pattern_t patterns of run
  round,      \* the round index of run
  passes,     \* number of simulate_nodes calls so far
  combos,     \* per simulation pass, the overflow inputs that held constant one
  build,      \* what this build does on an undefined shift, once it is known
  first       \* the outcome of the previous call on the same networks, if any

vars == <<ntk1_pis, ntk2_pis, ntk1_pos, ntk2_pos, ntk_miter, has_pst, pst, pc,
          st, result, ret, patterns, round, passes, combos, build, first>>

inputs == <<ntk1_pis, ntk2_pis, ntk1_pos, ntk2_pos, ntk_miter, has_pst>>

\* simulation_cec_stats{}: split_var{ 0 }, rounds{ 0 }
DefaultStats == [split_var |-> 0, rounds |-> U32(0)]

\* what the caller's statistics object holds before the call
PriorStats == [split_var |-> 3, rounds |-> U32(1)]

\* no previous call
NoCall == [called |-> FALSE, ret |-> "none", pst |-> PriorStats]

Init ==
  /\ ntk1_pis \in 0 .. MaxPis
  /\ ntk2_pis \in 0 .. MaxPis
  /\ ntk1_pos \in 1 .. MaxPos
  /\ ntk2_pos \in 1 .. MaxPos
  /\ ntk_miter \in Miters(ntk1_pis, ntk2_pis, ntk1_pos, ntk2_pos)
  /\ has_pst \in BOOLEAN
  /\ pst = PriorStats
  /\ pc = "entry"
  /\ st = DefaultStats
  /\ result = "false"
  /\ ret = "none"
  /\ patterns = EmptyPatterns
  /\ round = 0
  /\ passes = 0
  /\ combos = << >>
  /\ build = "unknown"
  /\ first = NoCall

\* the overflow inputs (index >= split_var) whose table is not constant zero
OverflowOnes ==
  {i \in st.split_var .. ntk_miter.num_pis - 1 : ~is_const0(patterns[PiNode(i)])}

(***************************************************************************)
(* simulation_cec, up to the call of run.                                  *)
(***************************************************************************)
\* faulty variant: the statistics are written before the test of the cap
Entry_reporting_first ==
  /\ pc = "entry"
  /\ pst' = IF has_pst THEN st ELSE pst
  /\ IF ntk1_pis > PiCap
     THEN /\ ret' = "nullopt"
          /\ pc' = "returned"
     ELSE /\ ret' = ret
          /\ pc' = IF ntk_miter # NoMiter THEN "plan" ELSE "skipped"
  /\ UNCHANGED <<inputs, first, build, st, result, patterns, round, passes, combos>>

\* faulty variant: a miter that cannot be built is reported as nullopt
Entry_nullopt_without_miter ==
  /\ pc = "entry"
  /\ IF ntk1_pis > PiCap \/ ntk_miter = NoMiter
     THEN /\ ret' = "nullopt"
          /\ pc' = "returned"
     ELSE /\ ret' = ret
          /\ pc' = "plan"
  /\ UNCHANGED <<inputs, first, build, pst, st, result, patterns, round, passes, combos>>

Entry ==
  /\ pc = "entry"
  /\ IF ntk1_pis > PiCap
     THEN /\ ret' = "nullopt"
          /\ pc' = "returned"
     ELSE /\ ret' = ret
          /\ pc' = IF ntk_miter # NoMiter THEN "plan" ELSE "skipped"
  /\ UNCHANGED <<inputs, first, build, pst, st, result, patterns, round, passes, combos>>

(***************************************************************************)
(* simulation_cec_impl::run.                                               *)
(***************************************************************************)
\* computing split_var and rounds, reporting them as statistics.  An
\* undefined shift in compute_rounds takes one of its outcomes; the build
\* that produced it produces the same one in a later call.
Plan ==
  /\ pc = "plan"
  /\ LET n == ntk_miter.num_pis
         split_var == compute_splitting_var(n, ntk_miter.size)
         undefined == ShiftUndefined(U32Sub(U32(n), U32(split_var)))
     IN  \E rounds \in compute_rounds(n, split_var) :
            \E masks \in BOOLEAN :
               /\ rounds = ShiftByBuild(U32Sub(U32(n), U32(split_var)), masks)
               /\ IF undefined
                  THEN /\ build \in {"unknown", IF masks THEN "masks" ELSE "zero"}
                       /\ build' = IF masks THEN "masks" ELSE "zero"
                  ELSE masks /\ build' = build
               /\ st' = [split_var |-> split_var, rounds |-> rounds]
  /\ pc' = "init"
  /\ UNCHANGED <<inputs, first, pst, result, ret, patterns, round, passes, combos>>

InitPatterns ==
  /\ pc = "init"
  /\ st.split_var <= MaxSimVars
  /\ patterns' = init_patterns(ntk_miter, st.split_var)
  /\ pc' = "simulate"
  /\ UNCHANGED <<inputs, first, build, pst, st, result, ret, round, passes, combos>>

Simulate ==
  /\ pc = "simulate"
  /\ patterns' = simulate_nodes(ntk_miter, patterns, st.split_var)
  /\ passes' = passes + 1
  /\ combos' = Append(combos, OverflowOnes)
  /\ pc' = "check"
  /\ UNCHANGED <<inputs, first, build, pst, st, result, ret, round>>

\* faulty variant: the loop header tests `round <= rounds`
Check_loop_le ==
  /\ pc = "check"
  /\ IF ~check(ntk_miter, patterns, st.split_var)
     THEN /\ result' = "false"
          /\ pc' = "done"
          /\ round' = round
     ELSE IF U32Le(U32(round + 1), st.rounds)
          THEN /\ round + 1 <= MaxRound
               /\ round' = round + 1
               /\ pc' = "rotate"
               /\ result' = result
          ELSE /\ result' = "true"
               /\ pc' = "done"
               /\ round' = round
  /\ UNCHANGED <<inputs, first, build, pst, st, ret, patterns, passes, combos>>

\* faulty variant: a failing check does not leave the loop
Check_without_exit ==
  /\ pc = "check"
  /\ IF U32Lt(U32(round + 1), st.rounds)
     THEN /\ round + 1 <= MaxRound
          /\ round' = round + 1
          /\ pc' = "rotate"
          /\ result' = result
     ELSE /\ result' = IF check(ntk_miter, patterns, st.split_var) THEN "true" ELSE "false"
          /\ pc' = "done"
          /\ round' = round
  /\ UNCHANGED <<inputs, first, build, pst, st, ret, patterns, passes, combos>>

\* the check after a pass, and the loop header `round < rounds`
Check ==
  /\ pc = "check"
  /\ IF ~check(ntk_miter, patterns, st.split_var)
     THEN /\ result' = "false"
          /\ pc' = "done"
          /\ round' = round
     ELSE IF U32Lt(U32(round + 1), st.rounds)
          THEN /\ round + 1 <= MaxRound
               /\ round' = round + 1
               /\ pc' = "rotate"
               /\ result' = result
          ELSE /\ result' = "true"
               /\ pc' = "done"
               /\ round' = round
  /\ UNCHANGED <<inputs, first, build, pst, st, ret, patterns, passes, combos>>

Rotate ==
  /\ pc = "rotate"
  /\ patterns' = update_pattern(ntk_miter, round, patterns, st.split_var)
  /\ pc' = "simulate"
  /\ UNCHANGED <<inputs, first, build, pst, st, result, ret, round, passes, combos>>

(***************************************************************************)
(* simulation_cec, after run: the statistics are copied out and the result *)
(* is returned.                                                            *)
(***************************************************************************)
\* faulty variant: the statistics are added to what the caller's object holds
Report_accumulating ==
  /\ pc \in {"done", "skipped"}
  /\ pst' = IF has_pst
            THEN [split_var |-> pst.split_var + st.split_var, rounds |-> st.rounds]
            ELSE pst
  /\ ret' = result
  /\ pc' = "returned"
  /\ UNCHANGED <<inputs, first, build, st, result, patterns, round, passes, combos>>

\* faulty variant: the rounds reported are the passes that were executed
Report_passes ==
  /\ pc \in {"done", "skipped"}
  /\ pst' = IF has_pst THEN [st EXCEPT !.rounds = U32(passes)] ELSE pst
  /\ ret' = result
  /\ pc' = "returned"
  /\ UNCHANGED <<inputs, first, build, st, result, patterns, round, passes, combos>>

Report ==
  /\ pc \in {"done", "skipped"}
  /\ pst' = IF has_pst THEN st ELSE pst
  /\ ret' = result
  /\ pc' = "returned"
  /\ UNCHANGED <<inputs, first, build, st, result, patterns, round, passes, combos>>

Next == Entry \/ Plan \/ InitPatterns \/ Simulate \/ Check \/ Rotate \/ Report

Spec == Init /\ [][Next]_vars

(***************************************************************************)
(* A second call of simulation_cec on the same two networks, in the same   *)
(* program: the outcome of the first call is kept and the locals of        *)
(* simulation_cec start afresh.                                            *)
(***************************************************************************)
Reinvoke ==
  /\ pc = "returned"
  /\ ~first.called
  /\ first' = [called |-> TRUE, ret |-> ret, pst |-> pst]
  /\ pc' = "entry"
  /\ st' = DefaultStats
  /\ result' = "false"
  /\ ret' = "none"
  /\ patterns' = EmptyPatterns
  /\ round' = 0
  /\ passes' = 0
  /\ combos' = << >>
  /\ UNCHANGED <<inputs, build, pst>>

NextTwice == Next \/ Reinvoke

SpecTwice == Init /\ [][NextTwice]_vars

(***************************************************************************)
(* Reference semantics of a network, independent of the simulation: the    *)
(* value of every node under one assignment of the primary inputs.  An     *)
(* assignment is the set of the input indices that are 1; inputs outside   *)
(* the support of the listed nodes do not influence any output.            *)
(***************************************************************************)
RECURSIVE NodeValue(_, _, _)
NodeValue(ntk, ones, nd) ==
  IF nd = ConstNode
  THEN FALSE
  ELSE IF nd <= ntk.num_pis
       THEN (nd - 1) \in ones
       ELSE LET a == ntk.gates[nd - ntk.num_pis][1]
                b == ntk.gates[nd - ntk.num_pis][2]
            IN  /\ (NodeValue(ntk, ones, a.node) # a.c)
                /\ (NodeValue(ntk, ones, b.node) # b.c)

PoValue(ntk, ones, j) == NodeValue(ntk, ones, ntk.pos[j].node) # ntk.pos[j].c

Support(ntk) ==
  LET fanins == UNION {{ntk.gates[g][1], ntk.gates[g][2]} : g \in 1 .. Len(ntk.gates)}
      outs   == {ntk.pos[j] : j \in 1 .. Len(ntk.pos)}
  IN  {f.node - 1 : f \in {h \in fanins \cup outs : h.node \in PiNodes(ntk)}}

\* some input assignment makes some miter output 1
MiterDiffers(ntk) ==
  \E ones \in SUBSET Support(ntk) : \E j \in 1 .. Len(ntk.pos) : PoValue(ntk, ones, j)

(***************************************************************************)
(* Shorthands for the properties.                                          *)
(***************************************************************************)
\* run is called: the guard passed and the miter has a value
Ran == ntk1_pis <= PiCap /\ ntk_miter # NoMiter

\* the planner has run
Planned == Ran /\ pc \notin {"entry", "plan"}

\* the run is not followed further: the tables are wider than MaxSimVars, or
\* the next round index is beyond MaxRound
Capped ==
  \/ pc = "init" /\ st.split_var > MaxSimVars
  \/ /\ pc = "check"
     /\ round >= MaxRound
     /\ check(ntk_miter, patterns, st.split_var)
     /\ U32Lt(U32(round + 1), st.rounds)

NumPis == ntk_miter.num_pis

(***************************************************************************)
(* Properties.                                                             *)
(***************************************************************************)

\* C1: when both networks have equal counts and at most 40 inputs and no
\* input assignment makes a miter output 1, the run terminates with result
\* true: the passes are numbered by a round index that stays below rounds
\* (so the loop ends), run returns true and simulation_cec returns true.
C1_EquivalentReturnsTrue ==
  (Ran /\ ~MiterDiffers(ntk_miter)) =>
     /\ pc = "done" => result = "true"
     /\ pc = "returned" => ret = "true"
     /\ pc = "check" =>
          /\ passes = round + 1
          /\ round = 0 \/ U32Lt(U32(round), st.rounds)

\* C1 witness: an equivalent miter with gates over more than 6 inputs was
\* simulated in several rounds and true was returned.
C1_Witness ==
  /\ Ran /\ ~MiterDiffers(ntk_miter)
  /\ pc = "returned" /\ ret = "true"
  /\ NumPis > SmallPis /\ passes >= 2 /\ Len(ntk_miter.gates) > 0

\* C2: when both networks have equal counts and at most 40 inputs and some
\* input assignment makes a miter output 1, simulation_cec returns false.
C2_DifferentReturnsFalse ==
  (Ran /\ MiterDiffers(ntk_miter)) =>
     /\ pc = "done" => result = "false"
     /\ pc = "returned" => ret = "false"

\* C3: when the input count of either network exceeds 40, the result is
\* nullopt, never true or false, and no simulation round is executed.
C3_EitherOver40IsNullopt ==
  (ntk1_pis > PiCap \/ ntk2_pis > PiCap) =>
     /\ ret \in {"none", "nullopt"}
     /\ pc = "returned" => ret = "nullopt"
     /\ passes = 0

\* the estimate (32 + 2^(m-3)) * v is within the budget 2^29, in unbounded
\* arithmetic
WithinBudget(m, v) ==
  IF m - 3 > BudgetLog2 THEN v = 0 ELSE v <= (2^BudgetLog2) \div (32 + 2^(m - 3))

\* C4: after the planner, split_var <= n, so that the exponent n - split_var
\* is not negative and rounds = 2^(n - split_var).
C4_SplitVarAtMostN ==
  Planned => st.split_var <= NumPis

\* C5: for n <= 6 the statistics are split_var = n and rounds = 1, and
\* exactly one simulate/check pass is executed.
C5_SmallInputsSinglePass ==
  (Planned /\ NumPis <= SmallPis) =>
     /\ st.split_var = NumPis
     /\ st.rounds = U32(1)
     /\ passes <= 1
     /\ round = 0
     /\ pc \in {"check", "done", "returned"} => passes = 1

\* C5 witness: a run over 6 inputs, and one over no input, ended after its
\* single pass.
C5_Witness ==
  /\ Planned /\ NumPis \in {0, SmallPis}
  /\ pc = "returned" /\ passes = 1 /\ st.rounds = U32(1)

\* the number of overflow inputs (index >= split_var)
NumOverflow == IF st.split_var >= NumPis THEN 0 ELSE NumPis - st.split_var

\* C6: during the pass of round r every overflow input i holds the constant
\* bit (i - split_var) of r; no combination of overflow values occurs in two
\* rounds, and a run that is not cut short by a disagreement has simulated
\* all 2^(n - split_var) combinations.
C6_OverflowCoverage ==
  Planned =>
     /\ pc = "check" =>
          \A i \in st.split_var .. NumPis - 1 :
             patterns[PiNode(i)] =
               IF BitOf(round, i - st.split_var) = 1
               THEN Positions(st.split_var) ELSE tt_const0
     /\ \A a, b \in 1 .. Len(combos) : a # b => combos[a] # combos[b]
     /\ (pc = "done" /\ result = "true") =>
          (NumOverflow < 16 /\ Len(combos) = 2^NumOverflow)

\* C7: for n > 6 every candidate width m with 7 <= m < split_var has its
\* estimate (32 + 2^(m-3)) * v within 2^29, and split_var is the width next
\* to the largest such candidate: when split_var <= n, split_var itself is
\* over the budget.
C7_SplitVarWithinBudget ==
  (Planned /\ NumPis > SmallPis) =>
     /\ \A m \in FirstCandidate .. st.split_var - 1 : WithinBudget(m, ntk_miter.size)
     /\ st.split_var <= NumPis => ~WithinBudget(st.split_var, ntk_miter.size)

\* C8: a failing check goes directly to done with result false, and after
\* done no rotation, simulation or check occurs: the round index and the
\* number of passes stay as they are.
C8_FailingCheckEndsRun ==
  [][ /\ (pc = "check" /\ ~check(ntk_miter, patterns, st.split_var)) =>
           (pc' = "done" /\ result' = "false" /\ round' = round /\ passes' = passes)
      /\ pc \in {"done", "returned"} =>
           (pc' = "returned" /\ round' = round /\ passes' = passes) ]_vars

\* C8 witness: a check failed in a round after the first while rounds were
\* left, and the run is done with false.
C8_Witness ==
  /\ pc = "done" /\ result = "false"
  /\ round >= 1 /\ passes = round + 1
  /\ U32Lt(U32(round + 1), st.rounds)

\* C9: from the end of init_patterns to the end of run the pattern store has
\* an entry for every primary input of the miter, a table over split_var
\* variables.
C9_OneEntryPerPi ==
  (Ran /\ pc \in {"simulate", "check", "rotate", "done"}) =>
     \A nd \in PiNodes(ntk_miter) :
        nd \in DOMAIN patterns /\ patterns[nd] \subseteq Positions(st.split_var)

\* C9 witness: a rotation has just run on a miter with gates and overflow
\* inputs.
C9_Witness ==
  /\ Ran /\ pc = "simulate" /\ round >= 2
  /\ NumPis > st.split_var /\ Len(ntk_miter.gates) > 0
  /\ PiNodes(ntk_miter) \subseteq DOMAIN patterns

\* C10: the statistics are set by the planner and never change afterwards;
\* what the caller receives is the planner's pair, whether the run ended
\* with true or with false.
C10_StatsFixedAfterPlan ==
  /\ [][pc \notin {"entry", "plan"} => st' = st]_vars
  /\ [](Planned =>
          /\ st.split_var = compute_splitting_var(NumPis, ntk_miter.size)
          /\ st.rounds \in compute_rounds(NumPis, st.split_var))
  /\ []((Planned /\ pc = "returned" /\ has_pst) => pst = st)

\* C10 witness: a run that ended early with false, before all its rounds,
\* has reported the statistics.
C10_Witness ==
  /\ Planned /\ pc = "returned" /\ has_pst /\ ret = "false"
  /\ pst = st /\ U32Lt(U32(passes), st.rounds)

C12_OnlyPiEntries ==
  (Ran /\ pc = "simulate" /\ round >= 1) => DOMAIN patterns = PiNodes(ntk_miter)

\* C12 amended: at the start of the simulation of every round r >= 1 every
\* gate entry has been removed; the store holds the entries of the primary
\* inputs and the entry of the constant node, which the cleaning step keeps.
C12_PiAndConstantEntries ==
  (Ran /\ pc = "simulate" /\ round >= 1) =>
     DOMAIN patterns = PiNodes(ntk_miter) \cup {ConstNode}

\* C12 witness: a rotation has cleaned the store of a miter with gates.
C12_Witness ==
  /\ Ran /\ pc = "simulate" /\ round >= 1
  /\ Len(ntk_miter.gates) >= 1
  /\ GateNodes(ntk_miter) \cap DOMAIN patterns = {}
  /\ ConstNode \in DOMAIN patterns

\* C13: the steps of a run follow the order plan, init, simulate(0),
\* check(0), then rotate(r), simulate(r), check(r) for r = 1, 2, ...: every
\* step is followed by the next one of this order, a rotation is entered
\* only from the check of the round before with the next index, which lies
\* in 1..rounds-1, and a check is entered only from the simulation of its
\* round.
C13_StepOrder ==
  [][ /\ pc = "plan" => pc' = "init"
      /\ pc = "init" => (pc' = "simulate" /\ round' = 0 /\ passes' = 0)
      /\ pc = "simulate" => (pc' = "check" /\ round' = round /\ passes' = round + 1)
      /\ pc = "check" =>
           \/ pc' = "done" /\ round' = round
           \/ /\ pc' = "rotate"
              /\ round' = round + 1
              /\ U32Lt(U32(round'), st.rounds)
      /\ pc = "rotate" => (pc' = "simulate" /\ round' = round /\ round >= 1)
      /\ pc' = "rotate" => pc = "check"
      /\ pc' = "check" => pc = "simulate"
      /\ pc' = "simulate" => pc \in {"init", "rotate"} ]_vars

\* C13 witness: the check of round 2 is reached, after two rotations.
C13_Witness ==
  /\ Ran /\ pc = "check" /\ round = 2 /\ passes = 3
  /\ Len(combos) = 3

\* C14: a run ends in done with true only from the succeeding check of round
\* rounds - 1, after exactly rounds = 2^(n - split_var) passes; a succeeding
\* check of an earlier round goes on to the rotation of the next round, so
\* that the run ends after at most rounds passes.
C14_DoneTrueAfterAllRounds ==
  Planned =>
     /\ (pc = "done" /\ result = "true") =>
          /\ U32(round + 1) = st.rounds
          /\ passes = round + 1
          /\ st.split_var <= NumPis
          /\ NumPis - st.split_var < 31
          /\ passes = 2^(NumPis - st.split_var)
     /\ pc = "check" => (round = 0 \/ U32Lt(U32(round), st.rounds))

\* C15: at the start of the simulation of every round, each primary input of
\* index i < split_var holds the projection table of variable i (bit k of
\* the table is bit i of k, for k in 0..2^split_var-1), and before round 0
\* each input of index >= split_var holds the constant-zero table.
C15_FreeInputsAreProjections ==
  (Ran /\ pc = "simulate") =>
     \A i \in 0 .. NumPis - 1 :
        LET tt == patterns[PiNode(i)]
        IN  /\ i < st.split_var =>
                 \A k \in 0 .. 2^st.split_var - 1 :
                    (k \in tt) <=> ((k \div 2^i) % 2 = 1)
            /\ (i >= st.split_var /\ round = 0) => tt = {}

\* C15 witness: after two rotations over overflow inputs the free inputs
\* still hold their projections.
C15_Witness ==
  /\ Ran /\ pc = "simulate" /\ round = 2
  /\ st.split_var = FirstCandidate /\ NumPis > st.split_var
  /\ patterns[PiNode(1)] = {k \in 0 .. 127 : (k \div 2) % 2 = 1}
  /\ patterns[PiNode(8)] # {}

\* primary output j disagrees: the table of its driving node is not all
\* zeros, or not all ones when the output is complemented
OutputDisagrees(j) ==
  LET f == ntk_miter.pos[j]
      tt == patterns[f.node]
  IN  IF f.c
      THEN \E k \in 0 .. 2^st.split_var - 1 : k \notin tt
      ELSE \E k \in 0 .. 2^st.split_var - 1 : k \in tt

\* C16: the check of a round ends the run with false exactly when some
\* primary output disagrees; when no output disagrees the run goes on to the
\* next round or ends with true.
C16_CheckAgreesIffAllOutputsZero ==
  [][ pc = "check" =>
        LET disagree == \E j \in 1 .. Len(ntk_miter.pos) : OutputDisagrees(j)
        IN  /\ disagree => (pc' = "done" /\ result' = "false")
            /\ ~disagree => (pc' = "rotate" \/ (pc' = "done" /\ result' = "true")) ]_vars

\* C16 witness: a round disagreed because of its first output alone, a
\* complemented one, while its second output was constant zero.
C16_Witness ==
  /\ Ran /\ pc = "done" /\ result = "false"
  /\ Len(ntk_miter.pos) = 2
  /\ ntk_miter.pos[1].c /\ OutputDisagrees(1)
  /\ ~OutputDisagrees(2)

\* C17: for n > 6 the planner does not depend on the candidate width:
\* split_var is 7 when the estimate (32 + 2^4) * v exceeds 2^29 and n + 1
\* when it does not, and takes no other value.
C17_SplitVarIsSevenOrNPlusOne ==
  (Planned /\ NumPis > SmallPis) =>
     st.split_var = IF WithinBudget(FirstCandidate, ntk_miter.size)
                    THEN NumPis + 1
                    ELSE FirstCandidate

\* C18: when simulation_cec returns nullopt, the statistics object of the
\* caller holds what it held before the call, and no pass was executed.
C18_NulloptLeavesStats ==
  ret = "nullopt" => (pst = PriorStats /\ passes = 0)

\* C18 witness: a call given a statistics object returned nullopt.
C18_Witness ==
  /\ pc = "returned" /\ ret = "nullopt"
  /\ has_pst /\ ntk1_pis > PiCap

\* the two networks differ in primary-input or primary-output count
CountsDiffer == ntk1_pis # ntk2_pis \/ ntk1_pos # ntk2_pos

C20_ProductNeverWraps ==
  (Planned /\ NumPis > SmallPis) =>
     LET cond == U32Mul(32 + 2^(FirstCandidate - 3), U32(ntk_miter.size))
         max  == U32Shl1(BudgetLog2)
     IN  U32Le(cond, max) <=> WithinBudget(FirstCandidate, ntk_miter.size)

====
